---- MODULE Spec2Model ----
(***************************************************************************)
(* Trial timing and scoring engine of the two recall experiments:          *)
(*   src/Free recall experiment/Speed/free_recall_experiment.py    (free)  *)
(*   src/Serial recall experiment/Chunking/serial_recall_experiment.py     *)
(*                                                                (serial) *)
(* Each Tk application is a set of event handlers run to completion by one *)
(* event loop.  A handler is modelled as an operator from the application  *)
(* state (a record) to the set of states it can leave behind; the set has  *)
(* more than one element where the handler draws random numbers.           *)
(***************************************************************************)
EXTENDS Integers, Sequences, FiniteSets, TLC

\* ------------------------------------------------------------------------
\* Bounds of the model.  The letter pools and the list lengths of the source
\* are cut down so that every outcome of random.sample can be enumerated;
\* the relations between them that the code branches on are kept:
\*   |SIMILAR_POOL|, |DISSIMILAR_POOL| < LIST_LEN_MIN <= LIST_LEN_MAX <= |DEFAULT_POOL|
\*   serial list lengths <= |POOL|
\* ------------------------------------------------------------------------
MaxTrials == 2
MaxType == 1
SimilarSize == 2
DissimilarSize == 2
SerialPoolSize == 3
LIST_LEN_MIN == 3
LIST_LEN_MAX == 3
SERIAL_LEN_MIN == 2
SERIAL_LEN_MAX == 3
CHUNK_SIZE == 2
CHUNKED_LIST_LENGTH == 2
LateMs == 2450
GenPoolMax == 4
GenLenMax == 5
ScoreAlphabetSize == 6
ScoreLenMax == 3
NumKeys == 3
PosPoolSize == 4
PosLenMax == 4

\* ------------------------------------------------------------------------
\* Program constants
\* ------------------------------------------------------------------------
FIXATION_MS == 500
ON_MS == 400
BLANK_MS == 100
RETENTION_MS == 1000
INTERCHUNK_GAP_MS == 400
IMMEDIATE_BLANK_MS == 1000
PAUSE_MS == 5000
WM_TASK_MS == 5000
TICK_MS == 50
DEFAULT_N_TRIALS == 20
CHUNKS_PER_LIST == 3

SIMILAR_LETTERS == <<"B", "D", "G", "P", "T", "V">>
DISSIMILAR_LETTERS == <<"K", "L", "R", "Y", "Q", "H", "M", "N", "Z">>
SERIAL_LETTERS == <<"B", "D", "G", "K", "L", "M", "P", "Q", "R", "S", "T", "V", "Y", "Z">>

Min(a, b) == IF a <= b THEN a ELSE b

Max(a, b) == IF a >= b THEN a ELSE b

\* the first n symbols of a pool literal, as a set
FirstOf(letters, n) == {letters[i] : i \in 1..Min(n, Len(letters))}

SIMILAR_POOL == FirstOf(SIMILAR_LETTERS, SimilarSize)

DISSIMILAR_POOL == FirstOf(DISSIMILAR_LETTERS, DissimilarSize)

DEFAULT_POOL == SIMILAR_POOL \cup DISSIMILAR_POOL

POOL == FirstOf(SERIAL_LETTERS, SerialPoolSize)

\* ------------------------------------------------------------------------
\* StimulusSampler
\* ------------------------------------------------------------------------

\* all tuples of length n over S
Tuples(S, n) == [1..n -> S]

\* variant of random_sample that draws with replacement
RECURSIVE random_sample_with_replacement(_, _)
random_sample_with_replacement(pool, k) ==
    IF k = 0 THEN {<<>>}
    ELSE UNION {{<<x>> \o t : t \in random_sample_with_replacement(pool, k - 1)} : x \in pool}

\* random.sample(pool, k): every k-prefix of a permutation of pool
RECURSIVE random_sample(_, _)
random_sample(pool, k) ==
    IF k = 0 THEN {<<>>}
    ELSE UNION {{<<x>> \o t : t \in random_sample(pool \ {x}, k - 1)} : x \in pool}

\* variant of anti_repeat that leaves the list as it is
anti_repeat_skipped(letters, pool, i) == {[ok |-> TRUE, letters |-> letters]}

\* the loop "for i in range(1, len(letters))" from (1-based) index i on:
\* a position equal to its left neighbour is redrawn from the pool without
\* that neighbour; random.choice of an empty list raises IndexError
RECURSIVE anti_repeat(_, _, _)
anti_repeat(letters, pool, i) ==
    IF i > Len(letters) THEN {[ok |-> TRUE, letters |-> letters]}
    ELSE IF letters[i] = letters[i - 1]
         THEN IF pool \ {letters[i - 1]} = {}
              THEN {[ok |-> FALSE, letters |-> <<>>]}
              ELSE UNION {anti_repeat([letters EXCEPT ![i] = x], pool, i + 1) :
                            x \in pool \ {letters[i - 1]}}
         ELSE anti_repeat(letters, pool, i + 1)

\* the body of _make_list once pool and L are fixed
generate(pool, L) ==
    IF L <= Cardinality(pool)
    THEN {[ok |-> TRUE, letters |-> l] : l \in random_sample(pool, L)}
    ELSE UNION {anti_repeat(base \o extra, pool, 2) :
                  base \in random_sample(pool, Cardinality(pool)),
                  extra \in Tuples(pool, L - Cardinality(pool))}

\* ------------------------------------------------------------------------
\* ResponseScorer
\* ------------------------------------------------------------------------
PHONO_PAIRS ==
    {<<"B", "P">>, <<"D", "T">>, <<"G", "K">>, <<"F", "S">>, <<"M", "N">>,
     <<"V", "B">>, <<"V", "F">>}

LOWER_CASE ==
    <<"a", "b", "c", "d", "e", "f", "g", "h", "i", "j", "k", "l", "m",
      "n", "o", "p", "q", "r", "s", "t", "u", "v", "w", "x", "y", "z">>

UPPER_CASE ==
    <<"A", "B", "C", "D", "E", "F", "G", "H", "I", "J", "K", "L", "M",
      "N", "O", "P", "Q", "R", "S", "T", "U", "V", "W", "X", "Y", "Z">>

A_TO_Z == {UPPER_CASE[i] : i \in 1..26}

WHITESPACE == {" ", "\t", "\n"}

Range(seq) == {seq[i] : i \in DOMAIN seq}

\* variant of remove that also drops everything before the first occurrence
remove_through(t, r) ==
    LET k == CHOOSE i \in 1..Len(t) : t[i] = r /\ \A j \in 1..(i - 1) : t[j] # r
    IN  SubSeq(t, k + 1, Len(t))

\* list.remove(r): the list without the first occurrence of r
remove(t, r) ==
    LET k == CHOOSE i \in 1..Len(t) : t[i] = r /\ \A j \in 1..(i - 1) : t[j] # r
    IN  SubSeq(t, 1, k - 1) \o SubSeq(t, k + 1, Len(t))

\* variant of the overlap loop that never consumes a matched target item
RECURSIVE overlap_loop_no_remove(_, _, _, _)
overlap_loop_no_remove(t, resp_letters, i, count) ==
    IF i > Len(resp_letters) THEN count
    ELSE IF resp_letters[i] \in Range(t)
         THEN overlap_loop_no_remove(t, resp_letters, i + 1, count + 1)
         ELSE overlap_loop_no_remove(t, resp_letters, i + 1, count)

\* "for r in resp_letters" of overlaps_ignoring_order from (1-based) index i
RECURSIVE overlap_loop(_, _, _, _)
overlap_loop(t, resp_letters, i, count) ==
    IF i > Len(resp_letters) THEN count
    ELSE IF resp_letters[i] \in Range(t)
         THEN overlap_loop(remove(t, resp_letters[i]), resp_letters, i + 1, count + 1)
         ELSE overlap_loop(t, resp_letters, i + 1, count)

overlaps_ignoring_order(target_letters, resp_letters) ==
    overlap_loop(target_letters, resp_letters, 1, 0)

\* variant of has_neighbor that reads the pair table from one side only
has_neighbor_one_sided(r, tset) ==
    \E p \in PHONO_PAIRS : r = p[1] /\ p[2] \in tset

\* whether response symbol r has a PHONO_PAIRS partner in tset
has_neighbor(r, tset) ==
    \E p \in PHONO_PAIRS : \/ (r = p[1] /\ p[2] \in tset)
                           \/ (r = p[2] /\ p[1] \in tset)

\* variant of phono_loop without the "r not in tset" test
RECURSIVE phono_loop_counts_targets(_, _, _, _)
phono_loop_counts_targets(tset, resp_letters, i, conf) ==
    IF i > Len(resp_letters) THEN conf
    ELSE IF has_neighbor(resp_letters[i], tset)
         THEN phono_loop_counts_targets(tset, resp_letters, i + 1, conf + 1)
         ELSE phono_loop_counts_targets(tset, resp_letters, i + 1, conf)

RECURSIVE phono_loop(_, _, _, _)
phono_loop(tset, resp_letters, i, conf) ==
    IF i > Len(resp_letters) THEN conf
    ELSE IF resp_letters[i] \notin tset /\ has_neighbor(resp_letters[i], tset)
         THEN phono_loop(tset, resp_letters, i + 1, conf + 1)
         ELSE phono_loop(tset, resp_letters, i + 1, conf)

estimate_phono_confusions(target_letters, resp_letters) ==
    phono_loop(Range(target_letters), resp_letters, 1, 0)

\* variant of correct_flags that pairs letters and response off, stopping at
\* the shorter of the two
correct_flags_zipped(letters, resp) ==
    [i \in 1..Min(Len(letters), Len(resp)) |-> resp[i] = letters[i]]

\* variant of correct_flags that gives no position to a response longer
\* than the list
correct_flags_no_overrun(letters, resp) ==
    [i \in 1..Len(letters) |->
        i <= Len(resp) /\ resp[i] = letters[i] /\ Len(resp) <= Len(letters)]

\* variant of correct_flags that counts a position the response does not
\* reach as correct
correct_flags_padded(letters, resp) ==
    [i \in 1..Len(letters) |-> i > Len(resp) \/ resp[i] = letters[i]]

\* SerialRecallApp._score: the per-position flags; the proportion is their
\* number of TRUE over len(letters)
correct_flags(letters, resp) ==
    [i \in 1..Len(letters) |-> i <= Len(resp) /\ resp[i] = letters[i]]

RECURSIVE count_true(_, _)
count_true(flags, i) ==
    IF i > Len(flags) THEN 0
    ELSE (IF flags[i] THEN 1 ELSE 0) + count_true(flags, i + 1)

\* SerialRecallApp._score: (acc, correct_flags), acc the exact quotient
\* num/den; the division raises ZeroDivisionError for an empty list
score(letters, resp) ==
    LET flags == correct_flags(letters, resp)
    IN  IF Len(letters) = 0
        THEN [ok |-> FALSE, acc |-> [num |-> 0, den |-> 0], correct_flags |-> flags]
        ELSE [ok |-> TRUE,
              acc |-> [num |-> count_true(flags, 1), den |-> Len(letters)],
              correct_flags |-> flags]

\* f"{x:.3f}" of the quotient num/den, in thousandths (den > 0); no quotient
\* with den < 16 lies half way between two thousandths
format_3f(num, den) == (2000 * num + den) \div (2 * den)

\* ------------------------------------------------------------------------
\* Normalisation of the typed text (a sequence of one-character strings)
\* ------------------------------------------------------------------------
RECURSIVE lstrip(_)
lstrip(text) ==
    IF text # <<>> /\ Head(text) \in WHITESPACE THEN lstrip(Tail(text)) ELSE text

RECURSIVE rstrip(_)
rstrip(text) ==
    IF text # <<>> /\ text[Len(text)] \in WHITESPACE
    THEN rstrip(SubSeq(text, 1, Len(text) - 1))
    ELSE text

strip(text) == rstrip(lstrip(text))

upper_char(c) ==
    IF \E i \in 1..26 : LOWER_CASE[i] = c
    THEN UPPER_CASE[CHOOSE i \in 1..26 : LOWER_CASE[i] = c]
    ELSE c

upper(text) == [i \in 1..Len(text) |-> upper_char(text[i])]

\* str.replace(" ", ""): the text without its space characters
RECURSIVE remove_spaces(_)
remove_spaces(text) ==
    IF text = <<>> THEN <<>>
    ELSE (IF Head(text) = " " THEN <<>> ELSE <<Head(text)>>) \o remove_spaces(Tail(text))

\* ''.join([c for c in resp if 'A' <= c <= 'Z'])
RECURSIVE keep_a_to_z(_)
keep_a_to_z(text) ==
    IF text = <<>> THEN <<>>
    ELSE (IF Head(text) \in A_TO_Z THEN <<Head(text)>> ELSE <<>>) \o keep_a_to_z(Tail(text))

\* entry.get().strip().upper().replace(" ", "")
strip_upper_nospace(raw) == remove_spaces(upper(strip(raw)))

\* the response of SerialRecallApp._on_enter
serial_response(raw) == strip_upper_nospace(raw)

\* variant of free_response without the A-Z filter
free_response_unfiltered(raw) == strip_upper_nospace(raw)

\* the response of FreeRecallApp._on_enter: additionally only A-Z is kept
free_response(raw) == keep_a_to_z(strip_upper_nospace(raw))

\* ------------------------------------------------------------------------
\* Application state
\* ------------------------------------------------------------------------
VARIABLES
    app,          \* "free" or "serial": which of the two programs is running
    similarity,   \* free form: self.similarity
    chunked,      \* free form: self.chunked
    rate,         \* serial form: self.rate
    post_phase,   \* serial form: self.post_phase
    chunking,     \* serial form: self.chunking
    n_trials,     \* self.n_trials
    trial_index,  \* self.trial_index
    letters,      \* self.letters
    list_length,  \* serial: self.list_length
    response,     \* self.response
    log_rows,     \* self.log_rows
    screen,       \* which builder last filled self.center
    label,        \* text of self.label, as a sequence of symbols
    entry,        \* self.entry: "destroyed", "unmapped" or "mapped"
    entry_text,   \* content of self.entry
    dialog,       \* the modal message box that is open, or "none"
    timers,       \* callbacks scheduled with self.after and not yet run
    elapsed,      \* countdown: milliseconds since its start at the last tick
    phases,       \* history: for each trial of the block, the phases it entered
    shown,        \* history: stimuli displayed in the current trial, in order
    retention_ms  \* history: while in recall, the delay that led to it

State ==
    [app |-> app, similarity |-> similarity, chunked |-> chunked, rate |-> rate,
     post_phase |-> post_phase, chunking |-> chunking, n_trials |-> n_trials,
     trial_index |-> trial_index, letters |-> letters, list_length |-> list_length,
     response |-> response, log_rows |-> log_rows, screen |-> screen,
     label |-> label, entry |-> entry, entry_text |-> entry_text,
     dialog |-> dialog, timers |-> timers, elapsed |-> elapsed,
     phases |-> phases, shown |-> shown, retention_ms |-> retention_ms]

\* a scheduled callback: the function to run, the delay asked for, and the
\* values its closure holds (i: the item index, or duration_ms for tick)
Callback(fn, ms, i, seq, on_ms, blank_ms, flag) ==
    [fn |-> fn, ms |-> ms, i |-> i, seq |-> seq, on_ms |-> on_ms,
     blank_ms |-> blank_ms, chunked |-> flag]

\* self.after(ms, fn)
after(s, cb) == [s EXCEPT !.timers = Append(@, cb)]

\* history: the current trial enters phase ph
enter(s, ph) == [s EXCEPT !.phases[Len(s.phases)] = Append(@, ph)]

\* variant of clear_center that keeps the entry widget of the screen before
clear_center_keeps_entry(s) == [s EXCEPT !.screen = "cleared", !.label = <<>>]

\* _clear_center: every child of self.center is destroyed, then label, sub,
\* entry and btn are created anew and not yet packed
clear_center(s) ==
    [s EXCEPT !.screen = "cleared", !.label = <<>>, !.entry = "unmapped",
              !.entry_text = <<>>]

\* _build_menu: every child of self.center (self.entry included) is
\* destroyed and the form is built
build_menu(s) ==
    [s EXCEPT !.screen = "menu", !.label = <<>>, !.entry = "destroyed",
              !.entry_text = <<>>]

\* variant of show_fixation that goes straight on to the recall screen
show_fixation_then_recall(s) ==
    after(enter([clear_center(s) EXCEPT !.screen = "fixation", !.label = <<"+">>],
                "Fixation"),
          Callback("recall_screen", FIXATION_MS, 0, <<>>, 0, 0, FALSE))

\* variant of show_fixation that schedules nothing
show_fixation_unscheduled(s) ==
    enter([clear_center(s) EXCEPT !.screen = "fixation", !.label = <<"+">>],
          "Fixation")

\* _show_fixation (the same code in both programs)
show_fixation(s) ==
    after(enter([clear_center(s) EXCEPT !.screen = "fixation", !.label = <<"+">>],
                "Fixation"),
          Callback("show_sequence", FIXATION_MS, 0, <<>>, 0, 0, FALSE))

\* variant of recall_screen that also arms a timer on the recall screen
recall_screen_with_timer(s) ==
    after(enter([clear_center(s) EXCEPT !.screen = "recall", !.label = <<"Type">>,
                                        !.entry = "mapped", !.entry_text = <<>>],
                "Recall"),
          Callback("recall_screen", RETENTION_MS, 0, <<>>, 0, 0, FALSE))

\* _recall_screen (the same code in both programs)
recall_screen(s) ==
    enter([clear_center(s) EXCEPT !.screen = "recall", !.label = <<"Type">>,
                                  !.entry = "mapped", !.entry_text = <<>>],
          "Recall")

\* ------------------------------------------------------------------------
\* Free recall: trial flow
\* ------------------------------------------------------------------------
free_pool(sim) ==
    IF sim = "similar" THEN SIMILAR_POOL
    ELSE IF sim = "dissimilar" THEN DISSIMILAR_POOL
    ELSE DEFAULT_POOL

\* FreeRecallApp._make_list: the lists it can return (ok) or the exception
make_list(sim) ==
    UNION {generate(free_pool(sim), L) : L \in LIST_LEN_MIN..LIST_LEN_MAX}

\* variant of free_next_trial whose budget test is > instead of >=
free_next_trial_one_more(s) ==
    IF s.trial_index > s.n_trials
    THEN {[s EXCEPT !.dialog = "block_complete"]}
    ELSE LET s1 == [s EXCEPT !.trial_index = @ + 1, !.phases = Append(@, <<>>),
                             !.shown = <<>>]
         IN  {IF g.ok
              THEN show_fixation([s1 EXCEPT !.letters = g.letters, !.response = <<>>])
              ELSE s1 : g \in make_list(s1.similarity)}

\* FreeRecallApp._next_trial
free_next_trial(s) ==
    IF s.trial_index >= s.n_trials
    THEN {[s EXCEPT !.dialog = "block_complete"]}
    ELSE LET s1 == [s EXCEPT !.trial_index = @ + 1, !.phases = Append(@, <<>>),
                             !.shown = <<>>]
         IN  {IF g.ok
              THEN show_fixation([s1 EXCEPT !.letters = g.letters, !.response = <<>>])
              ELSE s1 : g \in make_list(s1.similarity)}

\* present_next(i) inside FreeRecallApp._show_sequence; i counts from 0
free_present_next(s, seq, flag, i) ==
    IF i >= Len(seq)
    THEN after(enter(s, "Retention"),
               Callback("recall_screen", RETENTION_MS, 0, <<>>, 0, 0, FALSE))
    ELSE LET gap == IF flag /\ i > 0 /\ i % CHUNK_SIZE = 0
                    THEN INTERCHUNK_GAP_MS ELSE BLANK_MS
         IN  after([s EXCEPT !.label = <<seq[i + 1]>>,
                             !.shown = Append(@, <<seq[i + 1]>>)],
                   Callback("blank_then_next", ON_MS, i, seq, ON_MS, gap, flag))

\* FreeRecallApp._show_sequence
free_show_sequence(s) ==
    free_present_next(enter([clear_center(s) EXCEPT !.screen = "sequence"],
                            "Presentation"),
                      s.letters, s.chunked, 0)

\* variant of free_blank_then_next that continues two items further on
free_blank_then_next_skipping(s, cb) ==
    after([s EXCEPT !.label = <<>>],
          Callback("present_next", cb.blank_ms, cb.i + 2, cb.seq, cb.on_ms,
                   cb.blank_ms, cb.chunked))

\* FreeRecallApp._blank_then_next(i, blank_ms, cont_fn)
free_blank_then_next(s, cb) ==
    after([s EXCEPT !.label = <<>>],
          Callback("present_next", cb.blank_ms, cb.i + 1, cb.seq, cb.on_ms,
                   cb.blank_ms, cb.chunked))

\* what is left of t when the loop of overlaps_ignoring_order has run over
\* resp_letters from (1-based) index i
RECURSIVE overlap_rest(_, _, _)
overlap_rest(t, resp_letters, i) ==
    IF i > Len(resp_letters) THEN t
    ELSE IF resp_letters[i] \in Range(t)
         THEN overlap_rest(remove(t, resp_letters[i]), resp_letters, i + 1)
         ELSE overlap_rest(t, resp_letters, i + 1)

\* variant of free_row in which the scorer works on self.letters itself, not
\* on a copy, so that list_items is what the removals have left
free_row_in_place(s, resp) ==
    LET n_correct == overlaps_ignoring_order(s.letters, resp)
        left == overlap_rest(s.letters, resp, 1)
    IN  [trial_index |-> s.trial_index,
         similarity |-> s.similarity,
         chunked |-> s.chunked,
         list_items |-> left,
         response |-> resp,
         n_correct |-> n_correct,
         proportion_correct |-> format_3f(n_correct, Len(s.letters)),
         phonological_confusions |-> estimate_phono_confusions(left, resp)]

\* the row FreeRecallApp._on_enter builds
free_row(s, resp) ==
    LET n_correct == overlaps_ignoring_order(s.letters, resp)
    IN  [trial_index |-> s.trial_index,
         similarity |-> s.similarity,
         chunked |-> s.chunked,
         list_items |-> s.letters,
         response |-> resp,
         n_correct |-> n_correct,
         proportion_correct |-> format_3f(n_correct, Len(s.letters)),
         phonological_confusions |-> estimate_phono_confusions(s.letters, resp)]

\* variant of free_on_enter that files the new row in front of the others
free_on_enter_prepending(s) ==
    IF s.entry # "mapped" THEN {s}
    ELSE IF Len(s.letters) = 0 THEN {s}
    ELSE free_next_trial(
             enter([s EXCEPT !.log_rows = <<free_row(s, free_response(s.entry_text))>> \o @,
                             !.retention_ms = 0],
                   "Scoring"))

\* FreeRecallApp._on_enter; winfo_ismapped of a destroyed entry and the
\* division by len(targ) = 0 raise, which ends the handler where it stands
free_on_enter(s) ==
    IF s.entry # "mapped" THEN {s}
    ELSE IF Len(s.letters) = 0 THEN {s}
    ELSE free_next_trial(
             enter([s EXCEPT !.log_rows = Append(@, free_row(s, free_response(s.entry_text))),
                             !.retention_ms = 0],
                   "Scoring"))

\* ------------------------------------------------------------------------
\* Serial recall: trial flow
\* ------------------------------------------------------------------------
RATES ==
    [slow |-> [on_ms |-> 800, blank_ms |-> 200],
     fast |-> [on_ms |-> 500, blank_ms |-> 0]]

\* SerialRecallApp._sample_letters: random.sample raises ValueError when the
\* pool is shorter than the length asked for
sample_letters(len) ==
    IF len > Cardinality(POOL) THEN {[ok |-> FALSE, letters |-> <<>>]}
    ELSE {[ok |-> TRUE, letters |-> l] : l \in random_sample(POOL, len)}

\* variant of list_lengths whose drawn range starts at 0
list_lengths_from_zero(flag) ==
    IF flag THEN {CHUNKED_LIST_LENGTH} ELSE 0..SERIAL_LEN_MAX

\* variant of list_lengths that draws the length also when chunking is on
list_lengths_always_random(flag) == SERIAL_LEN_MIN..SERIAL_LEN_MAX

\* the lengths SerialRecallApp._next_trial can set
list_lengths(flag) ==
    IF flag THEN {CHUNKED_LIST_LENGTH} ELSE SERIAL_LEN_MIN..SERIAL_LEN_MAX

\* variant of serial_next_trial without the return after "Block complete":
\* the notice is shown and the next trial is begun all the same
serial_next_trial_falls_through(s) ==
    LET begun == UNION {
            LET s1 == [s EXCEPT !.trial_index = @ + 1, !.list_length = len,
                                !.phases = Append(@, <<>>), !.shown = <<>>]
            IN  {IF g.ok
                 THEN show_fixation([s1 EXCEPT !.letters = g.letters, !.response = <<>>])
                 ELSE s1 : g \in sample_letters(len)}
            : len \in list_lengths(s.chunking)}
    IN  IF s.trial_index >= s.n_trials
        THEN {[t EXCEPT !.dialog = "block_complete"] : t \in begun}
        ELSE begun

\* variant of serial_next_trial that leaves self.response as the last
\* submit set it
serial_next_trial_keeps_response(s) ==
    IF s.trial_index >= s.n_trials
    THEN {[s EXCEPT !.dialog = "block_complete"]}
    ELSE UNION {
           LET s1 == [s EXCEPT !.trial_index = @ + 1, !.list_length = len,
                               !.phases = Append(@, <<>>), !.shown = <<>>]
           IN  {IF g.ok
                THEN show_fixation([s1 EXCEPT !.letters = g.letters])
                ELSE s1 : g \in sample_letters(len)}
           : len \in list_lengths(s.chunking)}

\* SerialRecallApp._next_trial
serial_next_trial(s) ==
    IF s.trial_index >= s.n_trials
    THEN {[s EXCEPT !.dialog = "block_complete"]}
    ELSE UNION {
           LET s1 == [s EXCEPT !.trial_index = @ + 1, !.list_length = len,
                               !.phases = Append(@, <<>>), !.shown = <<>>]
           IN  {IF g.ok
                THEN show_fixation([s1 EXCEPT !.letters = g.letters, !.response = <<>>])
                ELSE s1 : g \in sample_letters(len)}
           : len \in list_lengths(s.chunking)}

\* variant of chunks_of whose slices start at every index
chunks_of_sliding(seq) ==
    [k \in 1..Len(seq) |-> SubSeq(seq, k, Min(k + CHUNK_SIZE - 1, Len(seq)))]

\* the chunks list of _present_chunked: seq[i:i+CHUNK_SIZE] for i = 0,
\* CHUNK_SIZE, ...
chunks_of(seq) ==
    [k \in 1..((Len(seq) + CHUNK_SIZE - 1) \div CHUNK_SIZE) |->
        SubSeq(seq, (k - 1) * CHUNK_SIZE + 1, Min(k * CHUNK_SIZE, Len(seq)))]

\* present_next(i) of _show_sequence and present_chunk(chunk_idx) of
\* _present_chunked: items is the letter list or the chunk list, a letter
\* being shown as a one-symbol text
serial_present(s, fn, items, on_ms, blank_ms, i) ==
    IF i >= Len(items)
    THEN after(s, Callback("post_list_phase", 0, 0, <<>>, 0, 0, FALSE))
    ELSE after([s EXCEPT !.label = items[i + 1], !.shown = Append(@, items[i + 1])],
               Callback("blank_then_next", on_ms, i, items, on_ms, blank_ms, fn = "present_chunk"))

\* the letter list as one-symbol texts
singles(seq) == [k \in 1..Len(seq) |-> <<seq[k]>>]

\* SerialRecallApp._show_sequence
serial_show_sequence(s) ==
    LET s1 == enter([clear_center(s) EXCEPT !.screen = "sequence"], "Presentation")
        timing == RATES[s.rate]
    IN  IF s.chunking
        THEN serial_present(s1, "present_chunk", chunks_of(s.letters),
                            timing.on_ms, timing.blank_ms, 0)
        ELSE serial_present(s1, "present_next", singles(s.letters),
                            timing.on_ms, timing.blank_ms, 0)

\* variant of serial_blank_then_next that schedules the continuation and
\* also calls it at once
serial_blank_then_next_twice(s, cb) ==
    LET s1 == [s EXCEPT !.label = <<>>]
        cont == IF cb.chunked THEN "present_chunk" ELSE "present_next"
    IN  serial_present(after(s1, Callback(cont, cb.blank_ms, cb.i + 1, cb.seq, cb.on_ms,
                                          cb.blank_ms, cb.chunked)),
                       cont, cb.seq, cb.on_ms, cb.blank_ms, cb.i + 1)

\* SerialRecallApp._blank_then_next(i, blank_ms, cont_fn)
serial_blank_then_next(s, cb) ==
    LET s1 == [s EXCEPT !.label = <<>>]
        cont == IF cb.chunked THEN "present_chunk" ELSE "present_next"
    IN  IF cb.blank_ms > 0
        THEN after(s1, Callback(cont, cb.blank_ms, cb.i + 1, cb.seq, cb.on_ms,
                                cb.blank_ms, cb.chunked))
        ELSE serial_present(s1, cont, cb.seq, cb.on_ms, cb.blank_ms, cb.i + 1)

\* variant of tick that schedules a further tick also after the continuation
tick_keeps_ticking(s, duration_ms, now) ==
    LET remain == Max(0, duration_ms - now)
    IN  IF remain > 0
        THEN after([s EXCEPT !.elapsed = now],
                   Callback("tick", TICK_MS, duration_ms, <<>>, 0, 0, FALSE))
        ELSE after(recall_screen([s EXCEPT !.elapsed = 0, !.retention_ms = now]),
                   Callback("tick", TICK_MS, duration_ms, <<>>, 0, 0, FALSE))

\* tick() of _countdown at `now` milliseconds after the countdown's start
tick(s, duration_ms, now) ==
    LET remain == Max(0, duration_ms - now)
    IN  IF remain > 0
        THEN after([s EXCEPT !.elapsed = now],
                   Callback("tick", TICK_MS, duration_ms, <<>>, 0, 0, FALSE))
        ELSE recall_screen([s EXCEPT !.elapsed = 0, !.retention_ms = now])

\* SerialRecallApp._countdown: start = time.time(), then the first tick()
countdown(s, duration_ms) == tick(s, duration_ms, 0)

\* variant of post_list_phase that gives "wm" the short blank of "immediate"
post_list_phase_wm_short(s) ==
    LET s1 == enter([clear_center(s) EXCEPT !.screen = "post_list"], "Retention")
    IN  IF s.post_phase \in {"immediate", "wm"}
        THEN after([s1 EXCEPT !.label = <<" ">>],
                   Callback("recall_screen", IMMEDIATE_BLANK_MS, 0, <<>>, 0, 0, FALSE))
        ELSE IF s.post_phase = "pause"
        THEN countdown([s1 EXCEPT !.label = <<" ">>], PAUSE_MS)
        ELSE recall_screen(s1)

\* SerialRecallApp._post_list_phase
post_list_phase(s) ==
    LET s1 == enter([clear_center(s) EXCEPT !.screen = "post_list"], "Retention")
    IN  IF s.post_phase = "immediate"
        THEN after([s1 EXCEPT !.label = <<" ">>],
                   Callback("recall_screen", IMMEDIATE_BLANK_MS, 0, <<>>, 0, 0, FALSE))
        ELSE IF s.post_phase = "pause"
        THEN countdown([s1 EXCEPT !.label = <<" ">>], PAUSE_MS)
        ELSE IF s.post_phase = "wm"
        THEN countdown(s1, WM_TASK_MS)
        ELSE recall_screen(s1)

\* the row SerialRecallApp._on_enter builds
serial_row(s, resp) ==
    LET per_pos == correct_flags(s.letters, resp)
    IN  [trial_index |-> s.trial_index,
         rate |-> s.rate,
         post_phase |-> s.post_phase,
         chunking |-> s.chunking,
         list_length |-> s.list_length,
         list_items |-> s.letters,
         response |-> resp,
         proportion_correct_in_position |->
             format_3f(count_true(per_pos, 1), Len(s.letters)),
         per_position_binary |-> per_pos]

\* variant of serial_on_enter without the winfo_ismapped test
serial_on_enter_unguarded(s) ==
    LET resp == serial_response(s.entry_text)
        s1 == [s EXCEPT !.response = resp]
    IN  IF Len(s.letters) = 0 THEN {s1}
        ELSE serial_next_trial(
                 enter([s1 EXCEPT !.log_rows = Append(@, serial_row(s1, resp)),
                                  !.retention_ms = 0],
                       "Scoring"))

\* SerialRecallApp._on_enter; _score divides by len(letters)
serial_on_enter(s) ==
    IF s.entry # "mapped" THEN {s}
    ELSE LET resp == serial_response(s.entry_text)
             s1 == [s EXCEPT !.response = resp]
         IN  IF Len(s.letters) = 0 THEN {s1}
             ELSE serial_next_trial(
                      enter([s1 EXCEPT !.log_rows = Append(@, serial_row(s1, resp)),
                                       !.retention_ms = 0],
                            "Scoring"))

\* ------------------------------------------------------------------------
\* Pure functions on their own: the sampler and the scorer on every input
\* within the bounds
\* ------------------------------------------------------------------------
VARIABLES
    gen_fn,     \* sampler: "generate" or "sample_letters"
    gen_pool,   \* sampler: the pool
    gen_len,    \* sampler: the length asked for
    gen_out,    \* sampler: the outcome
    gen_state,  \* sampler: "idle", "ready", "returned" or "raised"
    sc_target,  \* scorer: the target list
    sc_resp,    \* scorer: the response list
    sc_out,     \* scorer: the scores
    sc_state    \* scorer: "idle", "ready" or "scored"

\* ------------------------------------------------------------------------
\* Events of the main loop
\* ------------------------------------------------------------------------
SIMILARITIES == {"mixed", "similar", "dissimilar"}

RATE_NAMES == {"slow", "fast"}

POST_PHASES == {"immediate", "pause", "wm"}

\* values of the "# trials" field the model tries
Budgets == (0 - 1)..MaxTrials

KEY_LIST == <<"b", "?", " ", "7", "D", "x">>

\* characters the participant types
KEYS == FirstOf(KEY_LIST, NumKeys)

\* a tick runs TICK_MS after it was scheduled, plus the lateness of the loop
TickDelays == {TICK_MS + LateMs, 2 * (TICK_MS + LateMs)}

Apply(s) ==
    /\ app' = s.app
    /\ similarity' = s.similarity
    /\ chunked' = s.chunked
    /\ rate' = s.rate
    /\ post_phase' = s.post_phase
    /\ chunking' = s.chunking
    /\ n_trials' = s.n_trials
    /\ trial_index' = s.trial_index
    /\ letters' = s.letters
    /\ list_length' = s.list_length
    /\ response' = s.response
    /\ log_rows' = s.log_rows
    /\ screen' = s.screen
    /\ label' = s.label
    /\ entry' = s.entry
    /\ entry_text' = s.entry_text
    /\ dialog' = s.dialog
    /\ timers' = s.timers
    /\ elapsed' = s.elapsed
    /\ phases' = s.phases
    /\ shown' = s.shown
    /\ retention_ms' = s.retention_ms

next_trial(s) ==
    IF s.app = "free" THEN free_next_trial(s) ELSE serial_next_trial(s)

\* variant of start_block without self.log_rows.clear()
start_block_keeps_records(s) ==
    next_trial([s EXCEPT !.trial_index = 0, !.phases = <<>>])

\* _start_block (the same code in both programs)
start_block(s) ==
    next_trial([s EXCEPT !.trial_index = 0, !.log_rows = <<>>, !.phases = <<>>])

\* _on_enter, bound to <Return> and called by _submit_response
on_enter(s) ==
    IF s.app = "free" THEN free_on_enter(s) ELSE serial_on_enter(s)

\* the callback cb, taken off the timer queue, runs
run_callback(s, cb) ==
    IF cb.fn = "show_sequence"
    THEN {IF s.app = "free" THEN free_show_sequence(s) ELSE serial_show_sequence(s)}
    ELSE IF cb.fn = "blank_then_next"
    THEN {IF s.app = "free" THEN free_blank_then_next(s, cb)
                            ELSE serial_blank_then_next(s, cb)}
    ELSE IF cb.fn \in {"present_next", "present_chunk"}
    THEN {IF s.app = "free"
          THEN free_present_next(s, cb.seq, cb.chunked, cb.i)
          ELSE serial_present(s, cb.fn, cb.seq, cb.on_ms, cb.blank_ms, cb.i)}
    ELSE IF cb.fn = "post_list_phase"
    THEN {post_list_phase(s)}
    ELSE IF cb.fn = "tick"
    THEN {tick(s, cb.i, s.elapsed + d) : d \in TickDelays}
    ELSE {recall_screen([s EXCEPT !.retention_ms = cb.ms])}

\* sequence q without its k-th element
Without(q, k) == SubSeq(q, 1, k - 1) \o SubSeq(q, k + 1, Len(q))

\* the form as the experimenter can fill it in before pressing Start;
\* budgets above MaxTrials are not explored
forms(s) ==
    IF s.app = "free"
    THEN {[s EXCEPT !.n_trials = n, !.similarity = sim, !.chunked = ch] :
            n \in Budgets, sim \in SIMILARITIES, ch \in BOOLEAN}
    ELSE {[s EXCEPT !.n_trials = n, !.rate = r, !.post_phase = pp, !.chunking = ch] :
            n \in Budgets, r \in RATE_NAMES, pp \in POST_PHASES, ch \in BOOLEAN}

\* The experimenter fills in the form and presses Start.  The form and the
\* Start button exist only while the menu is shown.
StartBlock ==
    /\ screen = "menu"
    /\ dialog = "none"
    /\ \E t \in UNION {start_block(f) : f \in forms(State)} : Apply(t)
    /\ UNCHANGED <<gen_fn, gen_pool, gen_len, gen_out, gen_state>>
    /\ UNCHANGED <<sc_target, sc_resp, sc_out, sc_state>>

\* A scheduled callback comes due.  Tk runs callbacks in the order of their
\* due times; the model lets any pending one run.
Fire ==
    /\ \E k \in 1..Len(timers) :
          \E t \in run_callback([State EXCEPT !.timers = Without(timers, k)], timers[k]) :
              Apply(t)
    /\ UNCHANGED <<gen_fn, gen_pool, gen_len, gen_out, gen_state>>
    /\ UNCHANGED <<sc_target, sc_resp, sc_out, sc_state>>

\* The participant types a character into the entry of the recall screen.
TypeKey ==
    /\ entry = "mapped"
    /\ dialog = "none"
    /\ Len(entry_text) < MaxType
    /\ \E c \in KEYS : Apply([State EXCEPT !.entry_text = Append(@, c)])
    /\ UNCHANGED <<gen_fn, gen_pool, gen_len, gen_out, gen_state>>
    /\ UNCHANGED <<sc_target, sc_resp, sc_out, sc_state>>

\* <Return> is pressed in the main window (a modal message box takes the
\* keyboard while it is open).
PressEnter ==
    /\ dialog = "none"
    /\ \E t \in on_enter(State) : Apply(t)
    /\ UNCHANGED <<gen_fn, gen_pool, gen_len, gen_out, gen_state>>
    /\ UNCHANGED <<sc_target, sc_resp, sc_out, sc_state>>

\* The Submit button of the recall screen is pressed: _submit_response.
PressSubmit ==
    /\ screen = "recall"
    /\ dialog = "none"
    /\ \E t \in on_enter(State) : Apply(t)
    /\ UNCHANGED <<gen_fn, gen_pool, gen_len, gen_out, gen_state>>
    /\ UNCHANGED <<sc_target, sc_resp, sc_out, sc_state>>

\* _block_backspace, bound to <BackSpace> on the toplevel window: what the
\* handler returns; winfo_ismapped of a destroyed entry raises
block_backspace(s) ==
    IF s.entry = "destroyed" THEN "error"
    ELSE IF s.entry = "mapped" THEN "break"
    ELSE "none"

\* <BackSpace> is delivered to the widget with the keyboard focus, the entry
\* on the recall screen (focus_set), and runs the bindings of its tags in
\* the order widget, class, toplevel, all.  The widget has no binding of its
\* own; the binding of class Entry deletes the character before the
\* cursor; then the toplevel's binding runs, and whatever block_backspace
\* returns, "break" included, bears on the bindings of tag all only, none of
\* which changes the state.
backspace_key(s) ==
    IF s.entry = "mapped" /\ s.entry_text # <<>>
    THEN [s EXCEPT !.entry_text = SubSeq(@, 1, Len(@) - 1)]
    ELSE s

\* BackSpace is pressed in the main window.
PressBackSpace ==
    /\ dialog = "none"
    /\ Apply(backspace_key(State))
    /\ UNCHANGED <<gen_fn, gen_pool, gen_len, gen_out, gen_state>>
    /\ UNCHANGED <<sc_target, sc_resp, sc_out, sc_state>>

\* The "Block complete" box is closed: _next_trial goes on to _build_menu.
DismissNotice ==
    /\ dialog = "block_complete"
    /\ Apply(build_menu([State EXCEPT !.dialog = "none"]))
    /\ UNCHANGED <<gen_fn, gen_pool, gen_len, gen_out, gen_state>>
    /\ UNCHANGED <<sc_target, sc_resp, sc_out, sc_state>>

\* self.destroy() of the root window: every widget goes, the callbacks still
\* scheduled with after() are dropped with the interpreter, and mainloop
\* returns; the instance fields are left as they are
destroy(s) ==
    [s EXCEPT !.screen = "destroyed", !.label = <<>>, !.entry = "destroyed",
              !.entry_text = <<>>, !.dialog = "none", !.timers = <<>>]

\* variant of save_before_exit that first files the trial in hand with
\* whatever has been typed
save_before_exit_keeping_partial(s) ==
    LET s1 == [s EXCEPT !.log_rows = Append(@, [trial_index |-> s.trial_index,
                                                 response |-> s.entry_text])]
    IN  [s1 EXCEPT !.dialog = "save_data"]

\* FreeRecallApp._save_before_exit up to its first wait: with records held
\* the question "Save data?" is asked in a modal box, without records the
\* window is destroyed at once
save_before_exit(s) ==
    IF s.log_rows # <<>> THEN [s EXCEPT !.dialog = "save_data"] ELSE destroy(s)

\* The window is closed.  The free program has _save_before_exit as its
\* WM_DELETE_WINDOW protocol; the serial program sets none and Tk destroys
\* the window.
CloseWindow ==
    /\ screen # "destroyed"
    /\ dialog = "none"
    /\ Apply(IF app = "free" THEN save_before_exit(State) ELSE destroy(State))
    /\ UNCHANGED <<gen_fn, gen_pool, gen_len, gen_out, gen_state>>
    /\ UNCHANGED <<sc_target, sc_resp, sc_out, sc_state>>

\* "Save data?" is answered: No goes on to destroy(), Yes to _save_csv,
\* which waits in the file dialog and then in the "Saved" notice.
AnswerSaveData ==
    /\ dialog = "save_data"
    /\ \E yes \in BOOLEAN :
          Apply(IF yes THEN [State EXCEPT !.dialog = "save_csv"] ELSE destroy(State))
    /\ UNCHANGED <<gen_fn, gen_pool, gen_len, gen_out, gen_state>>
    /\ UNCHANGED <<sc_target, sc_resp, sc_out, sc_state>>

\* _save_csv returns (the file dialog was cancelled, or the rows held at
\* that moment were written and the notice was closed) and
\* _save_before_exit goes on to destroy().
FinishSave ==
    /\ dialog = "save_csv"
    /\ Apply(destroy(State))
    /\ UNCHANGED <<gen_fn, gen_pool, gen_len, gen_out, gen_state>>
    /\ UNCHANGED <<sc_target, sc_resp, sc_out, sc_state>>

vars ==
    <<app, similarity, chunked, rate, post_phase, chunking, n_trials,
      trial_index, letters, list_length, response, log_rows, screen, label,
      entry, entry_text, dialog, timers, elapsed, phases, shown, retention_ms,
      gen_fn, gen_pool, gen_len, gen_out, gen_state, sc_target, sc_resp, sc_out, sc_state>>

appvars ==
    <<app, similarity, chunked, rate, post_phase, chunking, n_trials,
      trial_index, letters, list_length, response, log_rows, screen, label,
      entry, entry_text, dialog, timers, elapsed, phases, shown, retention_ms>>

genvars == <<gen_fn, gen_pool, gen_len, gen_out, gen_state>>

scvars == <<sc_target, sc_resp, sc_out, sc_state>>

NoOutcome == [ok |-> FALSE, letters |-> <<>>]

NoScores == [n_correct |-> 0, phono_conf |-> 0, per_pos |-> <<>>]

GenIdle ==
    /\ gen_fn = "generate"
    /\ gen_pool = {}
    /\ gen_len = 0
    /\ gen_out = NoOutcome
    /\ gen_state = "idle"

ScoreIdle ==
    /\ sc_target = <<>>
    /\ sc_resp = <<>>
    /\ sc_out = NoScores
    /\ sc_state = "idle"

\* the state __init__ leaves behind, _build_menu included
AppInit ==
    /\ app \in {"free", "serial"}
    /\ similarity = "mixed"
    /\ chunked = TRUE
    /\ rate = "slow"
    /\ post_phase = "immediate"
    /\ chunking = FALSE
    /\ n_trials = DEFAULT_N_TRIALS
    /\ trial_index = 0
    /\ letters = <<>>
    /\ list_length = 0
    /\ response = <<>>
    /\ log_rows = <<>>
    /\ screen = "menu"
    /\ label = <<>>
    /\ entry = "destroyed"
    /\ entry_text = <<>>
    /\ dialog = "none"
    /\ timers = <<>>
    /\ elapsed = 0
    /\ phases = <<>>
    /\ shown = <<>>
    /\ retention_ms = 0

Init == AppInit /\ GenIdle /\ ScoreIdle

Next ==
    \/ StartBlock
    \/ Fire
    \/ TypeKey
    \/ PressEnter
    \/ PressSubmit
    \/ PressBackSpace
    \/ DismissNotice
    \/ CloseWindow
    \/ AnswerSaveData
    \/ FinishSave

Spec == Init /\ [][Next]_vars

\* ------------------------------------------------------------------------
\* The sampler on its own: _make_list's body on every pool and length within
\* the bounds, and _sample_letters on every length
\* ------------------------------------------------------------------------
GenAlphabet == FirstOf(SIMILAR_LETTERS, GenPoolMax)

\* the application at rest in its menu, while a function is run on its own
AppIdle == AppInit /\ app = "free"

GenInit ==
    /\ gen_fn \in {"generate", "sample_letters"}
    /\ gen_pool \in IF gen_fn = "generate" THEN (SUBSET GenAlphabet) \ {{}} ELSE {POOL}
    /\ gen_len \in 1..GenLenMax
    /\ gen_out = NoOutcome
    /\ gen_state = "ready"

Generate ==
    /\ gen_state = "ready"
    /\ \E g \in IF gen_fn = "generate" THEN generate(gen_pool, gen_len)
                                       ELSE sample_letters(gen_len) :
         /\ gen_out' = g
         /\ gen_state' = IF g.ok THEN "returned" ELSE "raised"
    /\ UNCHANGED <<gen_fn, gen_pool, gen_len>>
    /\ UNCHANGED appvars
    /\ UNCHANGED scvars

SamplerInit == AppIdle /\ GenInit /\ ScoreIdle

SpecSampler == SamplerInit /\ [][Generate]_vars

\* ------------------------------------------------------------------------
\* The scorer on its own: every target and response within the bounds
\* ------------------------------------------------------------------------
SCORE_LETTERS == <<"B", "D", "G", "P", "V", "Z", "T", "K">>

ScoreAlphabet == FirstOf(SCORE_LETTERS, ScoreAlphabetSize)

\* all sequences over S of length at most n
SeqsUpTo(S, n) == UNION {Tuples(S, k) : k \in 0..n}

ScoreInit ==
    /\ sc_target \in SeqsUpTo(ScoreAlphabet, ScoreLenMax)
    /\ sc_resp \in SeqsUpTo(ScoreAlphabet, ScoreLenMax)
    /\ sc_out = NoScores
    /\ sc_state = "ready"

Score ==
    /\ sc_state = "ready"
    /\ sc_out' = [n_correct |-> overlaps_ignoring_order(sc_target, sc_resp),
                  phono_conf |-> estimate_phono_confusions(sc_target, sc_resp),
                  per_pos |-> correct_flags(sc_target, sc_resp)]
    /\ sc_state' = "scored"
    /\ UNCHANGED <<sc_target, sc_resp>>
    /\ UNCHANGED appvars
    /\ UNCHANGED genvars

ScorerInit == AppIdle /\ GenIdle /\ ScoreInit

SpecScore == ScorerInit /\ [][Score]_vars

\* ------------------------------------------------------------------------
\* The position scorer on its own: every duplicate-free target over the
\* first letters of POOL and every response over these letters and "X"
\* ------------------------------------------------------------------------
PosPool == FirstOf(SERIAL_LETTERS, PosPoolSize)

PosTargets == UNION {random_sample(PosPool, k) : k \in 0..Min(PosLenMax, PosPoolSize)}

PosResponses == SeqsUpTo(PosPool \cup {"X"}, PosLenMax)

PosInit ==
    /\ sc_target \in PosTargets
    /\ sc_resp \in PosResponses
    /\ sc_out = NoScores
    /\ sc_state = "ready"

ScorePositions ==
    /\ sc_state = "ready"
    /\ sc_out' = score(sc_target, sc_resp)
    /\ sc_state' = IF sc_out'.ok THEN "scored" ELSE "raised"
    /\ UNCHANGED <<sc_target, sc_resp>>
    /\ UNCHANGED appvars
    /\ UNCHANGED genvars

PositionInit == AppIdle /\ GenIdle /\ PosInit

SpecPosition == PositionInit /\ [][ScorePositions]_vars

\* ------------------------------------------------------------------------
\* The programs under a fair event loop: mainloop runs every callback that
\* is due, and a participant at the recall screen submits in the end
\* ------------------------------------------------------------------------
\* Start is pressed in a session that has run no trial yet; the recalls of
\* this specification are submitted as the recall screen comes up, with
\* nothing typed
StartFirstBlock == trial_index = 0 /\ StartBlock

LiveNext ==
    \/ StartFirstBlock
    \/ Fire
    \/ PressEnter
    \/ PressSubmit
    \/ DismissNotice
    \/ CloseWindow
    \/ AnswerSaveData
    \/ FinishSave

SpecLive ==
    /\ Init
    /\ [][LiveNext]_vars
    /\ WF_vars(Fire)
    /\ WF_vars(PressEnter \/ PressSubmit)

\* ------------------------------------------------------------------------
\* One chunked trial of the serial program with a list of CHUNKS_PER_LIST
\* whole chunks, from the fixation cross to the recall screen
\* ------------------------------------------------------------------------
FULL_CHUNKED_LENGTH == CHUNKS_PER_LIST * CHUNK_SIZE

ChunkPool == FirstOf(SERIAL_LETTERS, FULL_CHUNKED_LENGTH)

\* the serial program at its menu, as __init__ leaves it
serial_menu ==
    [app |-> "serial", similarity |-> "mixed", chunked |-> TRUE, rate |-> "slow",
     post_phase |-> "immediate", chunking |-> FALSE, n_trials |-> DEFAULT_N_TRIALS,
     trial_index |-> 0, letters |-> <<>>, list_length |-> 0, response |-> <<>>,
     log_rows |-> <<>>, screen |-> "menu", label |-> <<>>, entry |-> "destroyed",
     entry_text |-> <<>>, dialog |-> "none", timers |-> <<>>, elapsed |-> 0,
     phases |-> <<>>, shown |-> <<>>, retention_ms |-> 0]

\* _start_block and _next_trial with chunking ticked and a budget of 1: the
\* states with the fixation cross of the first trial on screen
chunked_trial_starts ==
    {show_fixation([serial_menu EXCEPT !.n_trials = 1, !.rate = r, !.post_phase = pp,
                                       !.chunking = TRUE, !.trial_index = 1,
                                       !.list_length = FULL_CHUNKED_LENGTH,
                                       !.phases = <<<<>>>>, !.letters = l]) :
        r \in RATE_NAMES, pp \in POST_PHASES,
        l \in random_sample(ChunkPool, FULL_CHUNKED_LENGTH)}

ChunkedTrialInit ==
    \E s \in chunked_trial_starts :
        /\ app = s.app /\ similarity = s.similarity /\ chunked = s.chunked
        /\ rate = s.rate /\ post_phase = s.post_phase /\ chunking = s.chunking
        /\ n_trials = s.n_trials /\ trial_index = s.trial_index
        /\ letters = s.letters /\ list_length = s.list_length
        /\ response = s.response /\ log_rows = s.log_rows /\ screen = s.screen
        /\ label = s.label /\ entry = s.entry /\ entry_text = s.entry_text
        /\ dialog = s.dialog /\ timers = s.timers /\ elapsed = s.elapsed
        /\ phases = s.phases /\ shown = s.shown /\ retention_ms = s.retention_ms

ChunkedInit == ChunkedTrialInit /\ GenIdle /\ ScoreIdle

ChunkedNext ==
    \/ Fire
    \/ TypeKey

SpecChunked == ChunkedInit /\ [][ChunkedNext]_vars

\* ------------------------------------------------------------------------
\* Properties
\* ------------------------------------------------------------------------
NoAdjacentRepeat(l) == \A i \in 1..(Len(l) - 1) : l[i] # l[i + 1]

PairwiseDistinct(l) == \A i, j \in 1..Len(l) : i # j => l[i] # l[j]

\* C7: for every pool P and length L <= |P| the sampler returns a list of
\* exactly L symbols, all in P and pairwise distinct (so no two neighbours are
\* equal); this holds of _make_list's body and of _sample_letters.
C7_SampleWithoutReplacement ==
    gen_state # "ready" /\ gen_len <= Cardinality(gen_pool) =>
        /\ gen_state = "returned"
        /\ Len(gen_out.letters) = gen_len
        /\ Range(gen_out.letters) \subseteq gen_pool
        /\ PairwiseDistinct(gen_out.letters)
        /\ NoAdjacentRepeat(gen_out.letters)

C7_Witness ==
    /\ gen_state = "returned"
    /\ gen_fn = "sample_letters"
    /\ gen_len = Cardinality(gen_pool) - 1
    /\ gen_len >= 2

\* C8: for every pool P of at least two symbols and length L > |P|, whatever
\* the random choices, the list returned has exactly L symbols, all in P,
\* holds every symbol of P, and has no two equal neighbours.
C8_SampleWithReplacement ==
    gen_fn = "generate" /\ gen_state # "ready" /\ gen_len > Cardinality(gen_pool)
        /\ Cardinality(gen_pool) >= 2 =>
        /\ gen_state = "returned"
        /\ Len(gen_out.letters) = gen_len
        /\ Range(gen_out.letters) = gen_pool
        /\ NoAdjacentRepeat(gen_out.letters)

C8_Witness ==
    /\ gen_fn = "generate"
    /\ gen_state = "returned"
    /\ Cardinality(gen_pool) = 2
    /\ gen_len = 4
    /\ gen_out.letters[1] = gen_out.letters[3]

\* how often x occurs in seq
Occurrences(seq, x) == Cardinality({i \in DOMAIN seq : seq[i] = x})

RECURSIVE SumOfMin(_, _, _)
SumOfMin(S, t, r) ==
    IF S = {} THEN 0
    ELSE LET x == CHOOSE y \in S : TRUE
         IN  Min(Occurrences(t, x), Occurrences(r, x)) + SumOfMin(S \ {x}, t, r)

\* the size of the multiset intersection of t and r
MultisetIntersection(t, r) == SumOfMin(Range(t) \cup Range(r), t, r)

PHASE_ORDER == <<"Fixation", "Presentation", "Retention", "Recall", "Scoring">>

TimedPhases == {"Fixation", "Presentation", "Retention"}

IsPrefix(a, b) == Len(a) <= Len(b) /\ a = SubSeq(b, 1, Len(a))

\* the phases the trial in hand has entered
Trace == IF phases = <<>> THEN <<>> ELSE phases[Len(phases)]

\* the phase the trial in hand is in; "none" before the first trial and
\* once the window is destroyed
CurrentPhase ==
    IF Trace = <<>> \/ screen = "destroyed" THEN "none" ELSE Trace[Len(Trace)]

\* the block has ended: _next_trial has shown "Block complete"
BlockComplete == dialog = "block_complete"

\* C1: a block with budget N >= 1 in which every recall is submitted ends
\* with exactly N records, and the record at position k carries trial_index
\* k (1, 2, ..., N in append order), in both programs.
C1_BlockYieldsOrdinals ==
    /\ \A k \in 1..Len(log_rows) : log_rows[k].trial_index = k
    /\ BlockComplete /\ n_trials >= 1 => Len(log_rows) = n_trials

C1_Witness ==
    /\ BlockComplete
    /\ app = "serial"
    /\ n_trials = 2
    /\ Len(log_rows) = 2
    /\ log_rows[2].trial_index = 2

\* C2: every trial enters Fixation, Presentation, Retention, Recall, Scoring
\* in this order, each once, none skipped and none entered again; a trial
\* before the one in hand has entered all five.  Retention is the fixed
\* RETENTION_MS timer in the free program and the configured immediate,
\* pause or wm variant in the serial one.
C2_PhaseOrder ==
    /\ \A k \in 1..Len(phases) : IsPrefix(phases[k], PHASE_ORDER)
    /\ \A k \in 1..(Len(phases) - 1) : phases[k] = PHASE_ORDER
    /\ CurrentPhase = "Retention" =>
         /\ Len(timers) = 1
         /\ app = "free" =>
              timers[1].fn = "recall_screen" /\ timers[1].ms = RETENTION_MS
         /\ app = "serial" /\ post_phase = "immediate" =>
              timers[1].fn = "recall_screen" /\ timers[1].ms = IMMEDIATE_BLANK_MS
         /\ app = "serial" /\ post_phase = "pause" =>
              timers[1].fn = "tick" /\ timers[1].i = PAUSE_MS
         /\ app = "serial" /\ post_phase = "wm" =>
              timers[1].fn = "tick" /\ timers[1].i = WM_TASK_MS

C2_Witness ==
    /\ Len(phases) = 2
    /\ phases[1] = PHASE_ORDER
    /\ phases[2] = <<"Fixation", "Presentation", "Retention">>
    /\ app = "serial"
    /\ post_phase = "wm"

\* C3: no callback is pending while a trial is in Recall, and a step taken
\* in Recall that is not a submit (Enter or the Submit button) and does not
\* destroy the window leaves the trial in Recall with trial_index, the
\* records and the list unchanged.
C3_RecallEndsOnlyOnSubmit ==
    /\ [](CurrentPhase = "Recall" => timers = <<>>)
    /\ [][(CurrentPhase = "Recall" /\ screen' # "destroyed"
              /\ ~(PressEnter \/ PressSubmit)) =>
            /\ CurrentPhase' = "Recall"
            /\ UNCHANGED <<trial_index, log_rows, letters, screen, phases>>]_vars

C3_Witness ==
    /\ CurrentPhase = "Recall"
    /\ Len(entry_text) = MaxType
    /\ trial_index = 2
    /\ timers = <<>>

\* C4: Enter pressed while the trial is in Fixation, Presentation or
\* Retention changes nothing: no record, no change of trial_index or of the
\* list, and the pending callback stays as it is.
C4_EnterIgnoredBeforeRecall ==
    CurrentPhase \in TimedPhases => on_enter(State) = {State}

C4_Witness ==
    /\ CurrentPhase = "Retention"
    /\ trial_index = 2
    /\ Len(log_rows) = 1
    /\ entry = "unmapped"
    /\ Len(timers) = 1

\* C5: at most one callback is pending at any time; exactly one while the
\* trial is in Fixation, Presentation or Retention, none otherwise; and the
\* trials begun in the block are as many as trial_index says.
C5_OneCallbackPending ==
    /\ Len(timers) <= 1
    /\ CurrentPhase \in TimedPhases => Len(timers) = 1
    /\ CurrentPhase \notin TimedPhases => timers = <<>>
    /\ Len(phases) = trial_index

C5_Witness ==
    /\ Len(timers) = 1
    /\ timers[1].fn = "tick"
    /\ elapsed > 0
    /\ CurrentPhase = "Retention"

LOWER_LETTERS == {LOWER_CASE[i] : i \in 1..26}

\* C6 as claimed: the response of every record holds only A-Z, in both
\* programs.
C6_ResponseOnlyAZ ==
    \A k \in 1..Len(log_rows) : Range(log_rows[k].response) \subseteq A_TO_Z

\* C6 as amended: the response of every free-recall record holds only A-Z;
\* the response of a serial-recall record holds no space and no lower-case
\* letter (it may hold digits and punctuation such as "?").
C6_ResponseNormalised ==
    \A k \in 1..Len(log_rows) :
        /\ app = "free" => Range(log_rows[k].response) \subseteq A_TO_Z
        /\ app = "serial" =>
             Range(log_rows[k].response) \cap (LOWER_LETTERS \cup {" "}) = {}

C6_Witness ==
    /\ app = "free"
    /\ Len(log_rows) = 2
    /\ log_rows[1].response = <<>>
    /\ log_rows[2].response = <<"B">>

\* the lengths a list of the running program can have under its settings
AllowedLengths(program, flag) ==
    IF program = "free" THEN LIST_LEN_MIN..LIST_LEN_MAX
    ELSE IF flag THEN {CHUNKED_LIST_LENGTH}
    ELSE SERIAL_LEN_MIN..SERIAL_LEN_MAX

Scored == sc_state = "scored"

\* all rearrangements of seq
Perms(seq) ==
    {p \in Tuples(Range(seq), Len(seq)) :
        \A x \in Range(seq) : Occurrences(p, x) = Occurrences(seq, x)}

\* C11: overlaps_ignoring_order gives the same count for every rearrangement
\* of the response and for every rearrangement of the target.
C11_OverlapOrderIndependent ==
    Scored =>
        \A t \in Perms(sc_target) : \A r \in Perms(sc_resp) :
            overlaps_ignoring_order(t, r) = sc_out.n_correct

C11_Witness ==
    /\ Scored
    /\ sc_target = <<"D", "B", "D">>
    /\ sc_resp = <<"B", "D", "G">>
    /\ sc_out.n_correct = 2

\* a and b are the two sides of a stored confusable pair, in either order
Confusable(a, b) == <<a, b>> \in PHONO_PAIRS \/ <<b, a>> \in PHONO_PAIRS

HasConfusable(r, t) == \E x \in Range(t) : Confusable(r, x)

\* the number of response occurrences from index i on that the overlap
\* matching leaves unmatched (t is what is left of the target) and that have
\* a confusable partner in the whole target
RECURSIVE UnmatchedConfusable(_, _, _, _)
UnmatchedConfusable(target, t, resp, i) ==
    IF i > Len(resp) THEN 0
    ELSE IF resp[i] \in Range(t)
         THEN UnmatchedConfusable(target, remove(t, resp[i]), resp, i + 1)
         ELSE (IF HasConfusable(resp[i], target) THEN 1 ELSE 0)
              + UnmatchedConfusable(target, t, resp, i + 1)

\* C12 as claimed: the confusion count is the number of response occurrences
\* that the overlap matching left unmatched (a surplus repeat of a target
\* symbol included) and that have a confusable partner in the target.
C12_ConfusionsOverUnmatched ==
    Scored =>
        sc_out.phono_conf = UnmatchedConfusable(sc_target, sc_target, sc_resp, 1)

\* C12 as amended: the confusion count is the number of response occurrences
\* whose symbol is not in the target at all and has a confusable partner in
\* the target; an occurrence of a target symbol, matched or surplus, counts 0.
C12_ConfusionsOverNonTargets ==
    Scored =>
        sc_out.phono_conf =
            Cardinality({i \in 1..Len(sc_resp) :
                            /\ sc_resp[i] \notin Range(sc_target)
                            /\ HasConfusable(sc_resp[i], sc_target)})

C12_Witness ==
    /\ Scored
    /\ sc_target = <<"B", "P">>
    /\ sc_resp = <<"B", "B", "V">>
    /\ sc_out.n_correct = 1
    /\ sc_out.phono_conf = 1

\* C13: the confusion count grows by at most 1 per response symbol (the
\* count of a response is the sum of the counts of its symbols taken alone,
\* each 0 or 1), and a lone response symbol outside the target counts 1
\* exactly when it is paired with a target symbol on either side of a stored
\* pair; target B,D,G: response P gives 1, response Z gives 0.
C13_OncePerSymbolSymmetric ==
    Scored =>
        /\ sc_out.phono_conf <= Len(sc_resp)
        /\ \A i \in 1..Len(sc_resp) :
             estimate_phono_confusions(sc_target, <<sc_resp[i]>>) \in {0, 1}
        /\ Len(sc_resp) = 1 /\ sc_resp[1] \notin Range(sc_target) =>
             (sc_out.phono_conf = 1 <=> HasConfusable(sc_resp[1], sc_target))
        /\ Len(sc_resp) = 1 /\ sc_resp[1] \notin Range(sc_target) =>
             (sc_out.phono_conf = 0 <=> ~HasConfusable(sc_resp[1], sc_target))
        /\ (sc_target = <<"B", "D", "G">> /\ sc_resp = <<"P">>
              => sc_out.phono_conf = 1)
        /\ (sc_target = <<"B", "D", "G">> /\ sc_resp = <<"Z">>
              => sc_out.phono_conf = 0)
        /\ (sc_target = <<"P", "V">> /\ sc_resp = <<"B">>
              => sc_out.phono_conf = 1)

C13_Witness ==
    /\ Scored
    /\ sc_target = <<"P", "V">>
    /\ sc_resp = <<"B">>
    /\ sc_out.phono_conf = 1

\* C14: for a target T of length L >= 1 and any response R, _score returns
\* L flags, flag i true iff R has a position i and R[i] = T[i], and the
\* proportion (number of true flags) / L; T = BDGK: R = BDXK gives 1,1,0,1
\* and 0.75, R = BD gives 1,1,0,0 and 0.5.
C14_PositionExactScoring ==
    Scored =>
        /\ Len(sc_out.correct_flags) = Len(sc_target)
        /\ \A i \in 1..Len(sc_target) :
             sc_out.correct_flags[i] <=> (i <= Len(sc_resp) /\ sc_resp[i] = sc_target[i])
        /\ sc_out.acc.den = Len(sc_target)
        /\ sc_out.acc.num =
             Cardinality({i \in 1..Len(sc_out.correct_flags) : sc_out.correct_flags[i]})
        /\ (sc_target = <<"B", "D", "G", "K">> /\ sc_resp = <<"B", "D", "X", "K">>
              => /\ sc_out.correct_flags = <<TRUE, TRUE, FALSE, TRUE>>
                 /\ 100 * sc_out.acc.num = 75 * sc_out.acc.den)
        /\ (sc_target = <<"B", "D", "G", "K">> /\ sc_resp = <<"B", "D">>
              => /\ sc_out.correct_flags = <<TRUE, TRUE, FALSE, FALSE>>
                 /\ 100 * sc_out.acc.num = 50 * sc_out.acc.den)

C14_Witness ==
    /\ Scored
    /\ sc_target = <<"B", "D", "G", "K">>
    /\ sc_resp = <<"B", "D">>
    /\ sc_out.correct_flags = <<TRUE, TRUE, FALSE, FALSE>>
    /\ sc_out.acc = [num |-> 2, den |-> 4]

\* texts tried on the recall screen: nothing, one symbol more than the list,
\* and symbols outside the pool
ProbeTexts == {<<>>, Append(letters, "B"), <<"?", "7", "x">>}

\* C15: scoring never fails in a reachable state: the list of a trial is
\* never empty, and a submit in Recall with an empty text, a text longer
\* than the list or a text of symbols outside the pool appends one record
\* for the trial in hand.
C15_ScoringTotal ==
    /\ CurrentPhase # "none" => Len(letters) >= 1
    /\ CurrentPhase = "Recall" =>
         \A text \in ProbeTexts :
             \A s2 \in on_enter([State EXCEPT !.entry_text = text]) :
                 /\ Len(s2.log_rows) = Len(log_rows) + 1
                 /\ s2.log_rows[Len(s2.log_rows)].list_items = letters
                 /\ s2.log_rows[Len(s2.log_rows)].trial_index = trial_index
                 /\ app = "serial" =>
                      score(letters, serial_response(text)).ok

C15_Witness ==
    /\ CurrentPhase = "Recall"
    /\ app = "serial"
    /\ entry_text = <<"?">>
    /\ Len(log_rows) = 1
    /\ log_rows[1].response = <<>>

\* the blank that follows item k (counted from 0) is in progress: the
\* callback that will present item k + 1 is pending
BlankAfter(k) ==
    /\ Len(timers) = 1
    /\ timers[1].fn = "present_next"
    /\ timers[1].i = k + 1

\* C16: in the free program's chunked presentation the blank after the last
\* item of each chunk (items CHUNK_SIZE - 1, 2 * CHUNK_SIZE - 1, ... counted
\* from 0) lasts INTERCHUNK_GAP_MS and the blank after every other item
\* lasts BLANK_MS; without chunking every blank lasts BLANK_MS.
C16_GapFollowsChunkEnd ==
    \A k \in 0..(LIST_LEN_MAX - 1) :
        app = "free" /\ BlankAfter(k) =>
            timers[1].ms = IF chunked /\ (k + 1) % CHUNK_SIZE = 0
                           THEN INTERCHUNK_GAP_MS ELSE BLANK_MS

\* the texts of a sequence of displays, one after the other
RECURSIVE Flatten(_)
Flatten(displays) ==
    IF displays = <<>> THEN <<>> ELSE Head(displays) \o Flatten(Tail(displays))

\* the display before was blanked: the label is empty, or the callback about
\* to run is the blanking one with a blank of no duration
Blanked ==
    \/ label = <<>>
    \/ /\ Len(timers) = 1
       /\ timers[1].fn = "blank_then_next"
       /\ timers[1].blank_ms = 0

\* C17: during Presentation the items displayed so far are the first items
\* of the list in list order, each displayed once; every display after the
\* first follows a blank; Retention is entered from a blank after the last
\* item, and from then on the displays put together are the whole list.
C17_EachItemOnceInOrder ==
    /\ [](/\ \A k \in 1..Len(shown) : shown[k] # <<>>
          /\ CurrentPhase = "Presentation" => IsPrefix(Flatten(shown), letters)
          /\ CurrentPhase \in {"Retention", "Recall"} => Flatten(shown) = letters
          /\ CurrentPhase \in {"Presentation", "Retention", "Recall"}
                /\ (app = "free" \/ ~chunking)
                => \A k \in 1..Len(shown) : Len(shown[k]) = 1)
    /\ [][Len(shown') = Len(shown) + 1 /\ shown # <<>> => Blanked]_vars
    /\ [][CurrentPhase = "Presentation" /\ CurrentPhase' = "Retention" =>
            label = <<>> /\ Flatten(shown) = letters]_vars

C17_Witness ==
    /\ CurrentPhase = "Retention"
    /\ app = "free"
    /\ Len(shown) = LIST_LEN_MAX
    /\ Flatten(shown) = letters
    /\ trial_index = 2

C19_BackSpaceRejected ==
    [][CurrentPhase = "Recall" /\ PressBackSpace => entry_text' = entry_text]_vars

\* the trial in hand has a countdown as its post-list phase
CountingDown == app = "serial" /\ post_phase \in {"pause", "wm"}

CountdownDuration == IF post_phase = "pause" THEN PAUSE_MS ELSE WM_TASK_MS

\* C20: while the countdown runs exactly one tick is pending, and it was
\* scheduled at an elapsed time with something remaining (0 <= elapsed <
\* duration); the continuation into Recall runs once, on a tick whose
\* elapsed time has reached the duration however late the ticks come, and
\* no tick is pending afterwards.
C20_CountdownFromElapsedTime ==
    /\ [](CountingDown /\ CurrentPhase = "Retention" =>
            /\ Len(timers) = 1
            /\ timers[1].fn = "tick"
            /\ timers[1].i = CountdownDuration
            /\ 0 <= elapsed
            /\ elapsed < CountdownDuration)
    /\ [](CountingDown /\ CurrentPhase = "Recall" =>
            /\ retention_ms >= CountdownDuration
            /\ timers = <<>>
            /\ Cardinality({k \in 1..Len(Trace) : Trace[k] = "Recall"}) = 1)
    /\ [][CountingDown /\ CurrentPhase = "Retention" /\ CurrentPhase' = "Recall" =>
            /\ \E d \in TickDelays : retention_ms' = elapsed + d
            /\ retention_ms' >= CountdownDuration
            /\ timers' = <<>>]_vars

C20_Witness ==
    /\ CountingDown
    /\ CurrentPhase = "Recall"
    /\ post_phase = "pause"
    /\ retention_ms > PAUSE_MS
    /\ timers = <<>>

\* a step of _start_block: taken at the menu with no notice open, it empties
\* the records and leaves the block before or in the Fixation of trial 1
BlockBegins ==
    /\ screen = "menu"
    /\ dialog = "none"
    /\ log_rows' = <<>>
    /\ \/ trial_index' = 1 /\ phases' = <<<<"Fixation">>>> /\ n_trials' >= 1
       \/ trial_index' = 0 /\ phases' = <<>> /\ n_trials' <= 0

\* C21: in a block with budget N >= 1 "Block complete" is shown only by the
\* submit of trial N, with N records, the trial in Scoring and nothing
\* pending; while it is shown and afterwards at the menu no trial begins
\* until Start is pressed; trial_index only ever goes up by one within a
\* block.
C21_BlockCompleteOnceAfterLastTrial ==
    /\ [](BlockComplete /\ n_trials >= 1 =>
            /\ Len(log_rows) = n_trials
            /\ trial_index = n_trials
            /\ Trace = PHASE_ORDER
            /\ timers = <<>>)
    /\ [][~BlockComplete /\ BlockComplete' /\ n_trials' >= 1 =>
            /\ PressEnter \/ PressSubmit
            /\ CurrentPhase = "Recall"
            /\ trial_index = n_trials]_vars
    /\ [][BlockComplete =>
            /\ UNCHANGED <<phases, log_rows, trial_index, timers>>
            /\ BlockComplete' \/ screen' = "menu"]_vars
    /\ [][screen = "menu" /\ phases' # phases => BlockBegins]_vars
    /\ [][trial_index' # trial_index =>
            \/ trial_index' = trial_index + 1
            \/ BlockBegins]_vars

C21_Witness ==
    /\ BlockComplete
    /\ app = "free"
    /\ n_trials = 2
    /\ Len(log_rows) = 2
    /\ Trace = PHASE_ORDER

\* C22: a block started with a budget of 0 or less runs no trial and does
\* not show "Block complete".
C22_NonPositiveBudgetRejected ==
    n_trials <= 0 => phases = <<>> /\ ~BlockComplete

\* the trial in hand has begun and has not been submitted
InFlight ==
    /\ Trace # <<>>
    /\ Trace[Len(Trace)] \in {"Fixation", "Presentation", "Retention", "Recall"}

\* the window is being closed ("Save data?" or the save dialogs are up) or
\* is destroyed
Aborting == dialog \in {"save_data", "save_csv"} \/ screen = "destroyed"

\* C23: closing the window while trial k is in Fixation, Presentation,
\* Retention or Recall files nothing for trial k: the closing step leaves
\* the records as they are, and from then on (through the save dialogs and
\* after destroy()) they are exactly k-1 records carrying trial_index
\* 1..k-1.
C23_AbortDiscardsTrialInHand ==
    /\ [][(~Aborting /\ Aborting' /\ InFlight) =>
            /\ log_rows' = log_rows
            /\ trial_index' = trial_index
            /\ InFlight']_vars
    /\ [](Aborting /\ InFlight =>
            /\ Len(log_rows) = trial_index - 1
            /\ \A i \in 1..Len(log_rows) : log_rows[i].trial_index = i)

C23_Witness ==
    /\ screen = "destroyed"
    /\ app = "free"
    /\ InFlight
    /\ Trace[Len(Trace)] = "Recall"
    /\ trial_index = 2
    /\ Len(log_rows) = 1

\* C24: once the window is being closed, no scheduled callback runs any
\* more and the session stands still: the pending callbacks are only ever
\* dropped, and trial_index, the list, the response, the records and the
\* phase of the trial in hand no longer change.
C24_AbortCancelsCallbacks ==
    [][Aborting =>
         /\ timers' = timers \/ timers' = <<>>
         /\ UNCHANGED <<trial_index, letters, list_length, response, log_rows,
                        phases, shown, retention_ms>>]_vars

\* the pool the lists of the program in hand are drawn from
TrialPool == IF app = "free" THEN free_pool(similarity) ELSE POOL

\* C25: every trial starts reset.  The step that begins a trial draws a list
\* (of an allowed length, from the pool of the block's settings) and leaves
\* response empty with nothing displayed yet; response and the entry stay
\* empty through Fixation, Presentation and Retention; and the entry is
\* empty at the step that enters Recall, whatever was typed or filed in the
\* trial before.
C25_TrialStartsReset ==
    /\ [][(Len(phases') = Len(phases) + 1 /\ Trace' = <<"Fixation">>) =>
            /\ trial_index' = trial_index + 1 \/ trial_index' = 1
            /\ Len(letters') \in AllowedLengths(app', chunking')
            /\ Range(letters') \subseteq TrialPool'
            /\ response' = <<>>
            /\ entry_text' = <<>>
            /\ shown' = <<>>]_vars
    /\ [](CurrentPhase \in TimedPhases => response = <<>> /\ entry_text = <<>>)
    /\ [][(CurrentPhase # "Recall" /\ CurrentPhase' = "Recall") =>
            entry_text' = <<>> /\ response' = <<>>]_vars

C25_Witness ==
    /\ app = "serial"
    /\ Len(phases) = 2
    /\ CurrentPhase = "Recall"
    /\ entry_text = <<>>
    /\ log_rows # <<>>
    /\ log_rows[1].response # <<>>

\* a step that leaves the records alone or puts one record at their end
AppendsAtMostOne ==
    \/ log_rows' = log_rows
    \/ /\ Len(log_rows') = Len(log_rows) + 1
       /\ SubSeq(log_rows', 1, Len(log_rows)) = log_rows

\* C26 as stated: every step leaves the records unchanged or appends exactly
\* one record, so that no record once appended is ever removed or changed.
C26_RecordsOnlyAppended == [][AppendsAtMostOne]_vars

\* C26: every step other than the start of a block leaves the records
\* unchanged or appends exactly one record; the start of a block empties
\* them.
C26_RecordsOnlyAppendedWithinBlock ==
    [][AppendsAtMostOne \/ (BlockBegins /\ log_rows' = <<>>)]_vars

C26_Witness ==
    /\ Len(log_rows) = 2
    /\ log_rows[1].trial_index = 1
    /\ log_rows[1].response # <<>>
    /\ log_rows[2].response = <<>>
    /\ app = "free"

\* the scores of record r are those its own list_items and response give
Rescored(r) ==
    IF app = "free"
    THEN /\ r.n_correct = overlaps_ignoring_order(r.list_items, r.response)
         /\ r.phonological_confusions =
                estimate_phono_confusions(r.list_items, r.response)
         /\ r.proportion_correct = format_3f(r.n_correct, Len(r.list_items))
    ELSE /\ r.per_position_binary = correct_flags(r.list_items, r.response)
         /\ r.proportion_correct_in_position =
                format_3f(count_true(r.per_position_binary, 1), Len(r.list_items))

\* C27: the list of a trial is fixed once drawn.  self.letters changes only
\* at the step that begins a trial; the step that files a record is taken
\* with the displays of the trial put together equal to the list, writes
\* that list as list_items, leaves the earlier records as they were, and,
\* when it ends the block, leaves the list as it was; and scoring the
\* list_items and response of any record again gives the scores it holds.
C27_ListFixedAndScoringPure ==
    /\ [][letters' # letters => Trace' = <<"Fixation">>]_vars
    /\ [][Len(log_rows') = Len(log_rows) + 1 =>
            /\ Flatten(shown) = letters
            /\ log_rows'[Len(log_rows')].list_items = letters
            /\ SubSeq(log_rows', 1, Len(log_rows)) = log_rows
            /\ BlockComplete' => letters' = letters]_vars
    /\ [](\A k \in 1..Len(log_rows) : Rescored(log_rows[k]))

C27_Witness ==
    /\ BlockComplete
    /\ app = "free"
    /\ Len(log_rows) = 2
    /\ log_rows[2].list_items = letters
    /\ log_rows[2].n_correct >= 1
    /\ log_rows[1].n_correct >= 1

\* the time the post-list phase of the serial program is to last
PostListDelay ==
    IF post_phase = "immediate" THEN IMMEDIATE_BLANK_MS
    ELSE IF post_phase = "pause" THEN PAUSE_MS
    ELSE WM_TASK_MS

\* C28: in the serial program Recall is entered from Retention only, and not
\* before the post-list delay is over.  With "immediate" one callback, the
\* recall screen after IMMEDIATE_BLANK_MS, is pending through Retention and
\* Recall is entered by its firing; with "pause" and "wm" Recall is entered
\* at PAUSE_MS / WM_TASK_MS or more after the phase began, whichever way the
\* ticks fall.
C28_PostListDelay ==
    /\ [](app = "serial" /\ post_phase = "immediate" /\ CurrentPhase = "Retention" =>
            /\ Len(timers) = 1
            /\ timers[1].fn = "recall_screen"
            /\ timers[1].ms = IMMEDIATE_BLANK_MS)
    /\ [][(app = "serial" /\ CurrentPhase # "Recall" /\ CurrentPhase' = "Recall") =>
            /\ CurrentPhase = "Retention"
            /\ Len(timers) = 1 /\ timers' = <<>>
            /\ retention_ms' >= PostListDelay
            /\ post_phase = "immediate" => retention_ms' = timers[1].ms]_vars
    /\ [](app = "serial" /\ CurrentPhase = "Recall" =>
            /\ retention_ms >= PostListDelay
            /\ post_phase = "immediate" => retention_ms = IMMEDIATE_BLANK_MS
            /\ post_phase # "immediate" => retention_ms >= 5000)

C28_Witness ==
    /\ app = "serial"
    /\ post_phase = "immediate"
    /\ CurrentPhase = "Recall"
    /\ retention_ms = IMMEDIATE_BLANK_MS
    /\ trial_index = 2

\* C29: under a fair event loop and with every recall submitted in the end,
\* a trial in hand leads to the end of the block, and a trial in Fixation,
\* Presentation or Retention leads to Recall with no step of the
\* participant needed, unless the window is closed first.
C29_BlockEventuallyCompletes ==
    /\ (InFlight /\ ~Aborting /\ n_trials >= 1) ~> (BlockComplete \/ Aborting)
    /\ (CurrentPhase \in TimedPhases) ~> (CurrentPhase = "Recall" \/ screen = "destroyed")

C29_Witness ==
    /\ BlockComplete
    /\ app = "serial"
    /\ post_phase = "wm"
    /\ n_trials = 2
    /\ Len(log_rows) = 2
    /\ Trace = PHASE_ORDER

\* C30: a recall yields one record.  A record is appended only by a submit
\* taken in Recall, one at a time, with the trial_index of the trial in
\* hand, and that step leaves Recall; a submit outside Recall (in the
\* Fixation, Presentation or Retention of the next trial, or at the menu
\* after the block) changes neither the records nor trial_index; no step
\* taken while the "Block complete" notice is up does either, though the
\* recall screen of the last trial is still behind it; and no two records
\* carry the same trial_index.
C30_OneRecordPerRecall ==
    /\ [][Len(log_rows') > Len(log_rows) =>
            /\ PressEnter \/ PressSubmit
            /\ CurrentPhase = "Recall"
            /\ log_rows' = Append(log_rows, log_rows'[Len(log_rows')])
            /\ log_rows'[Len(log_rows')].trial_index = trial_index
            /\ CurrentPhase' # "Recall"]_vars
    /\ [][(CurrentPhase # "Recall" /\ (PressEnter \/ PressSubmit)) =>
            UNCHANGED <<log_rows, trial_index>>]_vars
    /\ [][BlockComplete => UNCHANGED <<log_rows, trial_index>>]_vars
    /\ [](\A i, j \in 1..Len(log_rows) :
            log_rows[i].trial_index = log_rows[j].trial_index => i = j)

C30_Witness ==
    /\ BlockComplete
    /\ entry = "mapped"
    /\ screen = "recall"
    /\ n_trials = 1
    /\ Len(log_rows) = 1
    /\ log_rows[1].response # <<>>

\* the trial in hand has been submitted and none has begun since
JustScored == Trace # <<>> /\ Trace[Len(Trace)] = "Scoring"

\* trial_index counts the records: a trial in hand has trial_index - 1
\* records behind it, and after its submit there are trial_index records,
\* the last one carrying trial_index
CounterMatchesLog ==
    /\ trial_index >= 0
    /\ InFlight => Len(log_rows) = trial_index - 1
    /\ JustScored =>
         /\ Len(log_rows) = trial_index
         /\ log_rows[Len(log_rows)].trial_index = trial_index

\* trial_index stays within a budget that is not negative
WithinBudget == n_trials >= 0 => trial_index <= n_trials

\* C31: in every state 0 <= trial_index <= N for the budget N of the block;
\* while the trial is in flight (Fixation through Recall) there are exactly
\* trial_index - 1 records, and after Scoring exactly trial_index records,
\* the last of which carries trial_index.
C31_CounterLogInvariant ==
    /\ trial_index <= n_trials
    /\ CounterMatchesLog

\* record r was filed under the settings of the block in hand
OfThisBlock(r) ==
    IF app = "free"
    THEN r.similarity = similarity /\ r.chunked = chunked
    ELSE r.rate = rate /\ r.post_phase = post_phase /\ r.chunking = chunking

\* C32: pressing Start at the menu while records of an earlier block are
\* held leaves no record and, for a budget of at least 1, trial 1 in
\* Fixation with trial_index 1 (trial_index 0 and no trial otherwise); so
\* at all times every record held was filed under the settings of the block
\* in hand, there are at most trial_index of them, and the first carries
\* trial_index 1.
C32_StartResetsCounterAndRecords ==
    /\ [][(screen = "menu" /\ dialog = "none" /\ log_rows # <<>>
              /\ screen' # "destroyed" /\ dialog' # "save_data") =>
            \/ UNCHANGED <<log_rows, trial_index, phases, letters>>
            \/ /\ log_rows' = <<>>
               /\ IF n_trials' >= 1
                  THEN trial_index' = 1 /\ phases' = <<<<"Fixation">>>>
                       /\ screen' = "fixation"
                  ELSE trial_index' = 0 /\ phases' = <<>>]_vars
    /\ [](/\ \A k \in 1..Len(log_rows) : OfThisBlock(log_rows[k])
          /\ Len(log_rows) <= trial_index
          /\ log_rows # <<>> => log_rows[1].trial_index = 1)

C32_Witness ==
    /\ log_rows = <<>>
    /\ letters # <<>>
    /\ trial_index = 0
    /\ n_trials = 0
    /\ BlockComplete

\* how many positions of resp hold a symbol of the target
InTarget(target, resp) ==
    Cardinality({i \in 1..Len(resp) : resp[i] \in Range(target)})

\* C33: for every target T and response R scored, the overlap count lies in
\* 0..min(|T|, |R|), so that for a non-empty T the proportion written with
\* three decimals lies between 0.000 and 1.000; the confusion count lies
\* between 0 and |R| less the number of response symbols that are in the
\* target; and at most min(|T|, |R|) position flags are true.
C33_ScoreBounds ==
    Scored =>
        /\ sc_out.n_correct \in 0..Min(Len(sc_target), Len(sc_resp))
        /\ sc_target # <<>> =>
             format_3f(sc_out.n_correct, Len(sc_target)) \in 0..1000
        /\ sc_out.phono_conf \in 0..(Len(sc_resp) - InTarget(sc_target, sc_resp))
        /\ Len(sc_out.per_pos) = Len(sc_target)
        /\ count_true(sc_out.per_pos, 1) \in 0..Min(Len(sc_target), Len(sc_resp))

C33_Witness ==
    /\ Scored
    /\ sc_target = <<"B", "D">>
    /\ sc_resp = <<"B", "B", "P">>
    /\ sc_out.n_correct = 1
    /\ sc_out.phono_conf = 1
    /\ count_true(sc_out.per_pos, 1) = 1

\* the first n positions of seq, or all of it when it is shorter
FirstN(seq, n) == SubSeq(seq, 1, Min(n, Len(seq)))

\* C34: _score reads the response up to the length L of the target only:
\* what it returns for target T and response R is what it returns for T and
\* the first L positions of R, and, when R has L positions or more, for T
\* and R with any further symbol appended.
C34_ScoreIgnoresPastTargetLength ==
    sc_state \in {"scored", "raised"} =>
        /\ sc_out = score(sc_target, FirstN(sc_resp, Len(sc_target)))
        /\ Len(sc_resp) >= Len(sc_target) =>
             \A x \in PosPool \cup {"X"} :
                 score(sc_target, Append(sc_resp, x)) = sc_out

C34_Witness ==
    /\ sc_state = "scored"
    /\ Len(sc_target) = 2
    /\ Len(sc_resp) = 4
    /\ sc_resp[3] = "X"
    /\ sc_resp[4] = sc_target[1]
    /\ sc_out.correct_flags = <<TRUE, FALSE>>

====
